---- MODULE Spec2Model ----
(***************************************************************************)
(* Model of tools/strip_target_features.py: the WASM section walker that   *)
(* drops every custom section named "target_features" and copies all other *)
(* sections verbatim.                                                      *)
(*                                                                         *)
(* Bytes are integers 0..255, a buffer is a sequence of bytes.  Python     *)
(* offsets are 0-based, TLA+ sequences 1-based: data[i] of the source is   *)
(* data[i + 1] here.  Python integers are unbounded, so no width is        *)
(* applied; the inputs are chosen so that every decoded value stays far    *)
(* below the model checker's integer range.                                *)
(***************************************************************************)
EXTENDS Integers, Sequences, FiniteSets

VARIABLES
    argc,            \* len(sys.argv)
    data,            \* bytes of the input file (sys.argv[1])
    out,             \* the bytearray being assembled
    pos,             \* cursor of the while loop
    stripped,        \* the flag of line 35
    section_start, section_id, section_size, leb_len, section_end,
    name_len, name_leb_len, name_start,      \* locals of the loop body
    diag,            \* byte counts of the "Stripped ..." lines on stderr
    warning,         \* the "no target_features section found" line was printed
    outfile_exists,  \* the output path (sys.argv[2]) has been written
    outfile,         \* its content
    err,             \* the uncaught exception that ended the process, or "none"
    pc,              \* "start", "loop", "write", "done", "usage", "error"
    run              \* which invocation of the tool this is

vars == <<argc, data, out, pos, stripped, section_start, section_id,
          section_size, leb_len, section_end, name_len, name_leb_len,
          name_start, diag, warning, outfile_exists, outfile, err, pc, run>>

locals == <<section_start, section_id, section_size, leb_len, section_end,
            name_len, name_leb_len, name_start>>

---------------------------------------------------------------------------
(* Bounds of the model.                                                    *)

MaxSections == 3    \* sections per input drawn from the full chunk set
MaxCore == 5        \* sections per input drawn from the three plain chunks
MaxCut == 1         \* bytes cut off the end of an input
MaxRuns == 2        \* invocations in a row, each on the previous output

---------------------------------------------------------------------------
(* Generic helpers.                                                        *)

Min(a, b) == IF a < b THEN a ELSE b

\* Python's data[a:b] for 0 <= a, 0 <= b: clipped to the buffer, never an error.
Slice(d, a, b) ==
    IF a >= Min(b, Len(d)) THEN <<>> ELSE SubSeq(d, a + 1, Min(b, Len(d)))

RECURSIVE Flatten(_)
Flatten(ss) == IF ss = <<>> THEN <<>> ELSE Head(ss) \o Flatten(Tail(ss))

SeqsUpTo(S, n) == UNION {[1..k -> S] : k \in 0..n}

---------------------------------------------------------------------------
(* Program constants.                                                      *)

HeaderLen == 8

\* b"\x00asm"
Magic == <<0, 97, 115, 109>>

\* "target_features", as code points (all ASCII)
TargetName == <<116, 97, 114, 103, 101, 116, 95, 102, 101, 97, 116, 117, 114, 101, 115>>

---------------------------------------------------------------------------
(* read_leb128 (lines 11-22).  The result is a record: ok = FALSE stands   *)
(* for the IndexError that data[i] raises once i reaches len(data).        *)

RECURSIVE leb_loop(_, _, _, _, _)
leb_loop(d, offset, i, result, shift) ==
    IF i >= Len(d)
    THEN [ok |-> FALSE, value |-> 0, len |-> 0]
    ELSE LET byte == d[i + 1]
             r == result + (byte % 128) * (2 ^ shift)
         IN  IF byte < 128
             THEN [ok |-> TRUE, value |-> r, len |-> (i + 1) - offset]
             ELSE leb_loop(d, offset, i + 1, r, shift + 7)

\* Mutant: the loop stops at the end of the buffer instead of indexing past
\* it, and returns what it has.
RECURSIVE leb_loop_bounded(_, _, _, _, _)
leb_loop_bounded(d, offset, i, result, shift) ==
    IF i >= Len(d)
    THEN [ok |-> TRUE, value |-> result, len |-> i - offset]
    ELSE LET byte == d[i + 1]
             r == result + (byte % 128) * (2 ^ shift)
         IN  IF byte < 128
             THEN [ok |-> TRUE, value |-> r, len |-> (i + 1) - offset]
             ELSE leb_loop_bounded(d, offset, i + 1, r, shift + 7)

read_leb128_bounded(d, offset) == leb_loop_bounded(d, offset, offset, 0, 0)

\* Mutant: the shift grows by 8 per byte instead of 7.
RECURSIVE leb_loop_shift8(_, _, _, _, _)
leb_loop_shift8(d, offset, i, result, shift) ==
    IF i >= Len(d)
    THEN [ok |-> FALSE, value |-> 0, len |-> 0]
    ELSE LET byte == d[i + 1]
             r == result + (byte % 128) * (2 ^ shift)
         IN  IF byte < 128
             THEN [ok |-> TRUE, value |-> r, len |-> (i + 1) - offset]
             ELSE leb_loop_shift8(d, offset, i + 1, r, shift + 8)

read_leb128_shift8(d, offset) == leb_loop_shift8(d, offset, offset, 0, 0)

read_leb128(d, offset) == leb_loop(d, offset, offset, 0, 0)

---------------------------------------------------------------------------
(* bytes.decode("utf-8", errors="replace") (line 48), as code points.  A   *)
(* byte below 0x80 is its own code point.  A byte that does not belong to  *)
(* a valid multi-byte sequence becomes U+FFFD; the inputs of this model    *)
(* hold no lead byte (0xC2..0xF4), so every high byte is such a byte.      *)

decode_replace(bs) ==
    [i \in 1..Len(bs) |-> IF bs[i] < 128 THEN bs[i] ELSE 65533]

\* Mutant: only the first three bytes are compared.
magic_ok_prefix3(d) == Slice(d, 0, 3) = SubSeq(Magic, 1, 3)

\* line 31: data[:4] == b"\x00asm"
magic_ok(d) == Slice(d, 0, 4) = Magic

\* line 48-49: the name the code compares with "target_features"
decoded_name(d, nstart, nlen) == decode_replace(Slice(d, nstart, nstart + nlen))

is_target(d, nstart, nlen) == decoded_name(d, nstart, nlen) = TargetName

\* line 55: the bytes appended for a kept section
kept_bytes(d, sstart, send) == Slice(d, sstart, send)

\* line 37: the loop condition decides where control goes next
after_loop_test(d, p) == IF p < Len(d) THEN "loop" ELSE "write"

---------------------------------------------------------------------------
(* Inputs.  A chunk is the byte span of one section as a producer would    *)
(* write it (or a malformed one); an input is a header, some chunks, and   *)
(* possibly a few bytes missing at the end.                                *)

Header == Magic \o <<1, 0, 0, 0>>
BadHeader == <<0, 97, 115, 110, 1, 0, 0, 0>>
ShortHeader == <<0, 97, 115>>

\* custom section "target_features" with two bytes of data
ChunkTarget == <<0, 18, 15>> \o TargetName \o <<1, 2>>
\* custom section "other" with one byte of data
ChunkOther == <<0, 7, 5, 111, 116, 104, 101, 114, 170>>
\* a non-custom section
ChunkCode == <<1, 2, 170, 187>>
\* custom section whose payload holds name_length 15 and only 14 name bytes
ChunkShortName == <<0, 15, 15>> \o SubSeq(TargetName, 1, 14)
\* section with id 0x73 ('s') and an empty payload
ChunkS == <<115, 0>>
\* custom section with an empty payload
ChunkEmptyCustom == <<0, 0>>
\* section whose size 2 is encoded in three bytes
ChunkWide == <<5, 130, 128, 0, 170, 187>>
\* section whose size field never clears its continuation bit
ChunkRunaway == <<3, 128, 128>>
\* custom section whose name is not valid UTF-8
ChunkBadName == <<0, 3, 2, 255, 116>>
\* custom section whose name_length field runs out of its payload
ChunkNameLenRun == <<0, 1, 128>>

CoreChunks == {ChunkTarget, ChunkOther, ChunkCode}

Chunks == CoreChunks \cup {ChunkShortName, ChunkS, ChunkEmptyCustom, ChunkWide,
                           ChunkRunaway, ChunkBadName, ChunkNameLenRun}

CutEnd(d, c) == SubSeq(d, 1, Len(d) - Min(c, Len(d)))

Inputs ==
    {CutEnd(Header \o Flatten(s), c) : s \in SeqsUpTo(Chunks, MaxSections), c \in 0..MaxCut}
    \cup {Header \o Flatten(s) : s \in SeqsUpTo(CoreChunks, MaxCore)}
    \cup {h \o Flatten(s) : h \in {BadHeader, ShortHeader}, s \in SeqsUpTo(CoreChunks, 1)}

---------------------------------------------------------------------------
(* The program.                                                            *)

Init ==
    /\ \/ argc = 3 /\ data \in Inputs
       \/ argc \in {2, 4} /\ data = Header
    /\ out = <<>>
    /\ pos = -1
    /\ stripped = FALSE
    /\ section_start = -1 /\ section_id = -1 /\ section_size = -1
    /\ leb_len = -1 /\ section_end = -1
    /\ name_len = -1 /\ name_leb_len = -1 /\ name_start = -1
    /\ diag = <<>>
    /\ warning = FALSE
    /\ outfile_exists = FALSE
    /\ outfile = <<>>
    /\ err = "none"
    /\ pc = "start"
    /\ run = 1

\* lines 26-35: argument check, read, magic assertion, header copy
Start ==
    /\ pc = "start"
    /\ IF argc # 3
       THEN /\ pc' = "usage"
            /\ UNCHANGED <<out, pos, err>>
       ELSE IF ~magic_ok(data)
       THEN /\ pc' = "error"
            /\ err' = "AssertionError"
            /\ UNCHANGED <<out, pos>>
       ELSE /\ out' = Slice(data, 0, HeaderLen)
            /\ pos' = HeaderLen
            /\ pc' = after_loop_test(data, HeaderLen)
            /\ UNCHANGED err
    /\ UNCHANGED <<argc, data, stripped, locals, diag, warning,
                   outfile_exists, outfile, run>>

\* lines 37-56: one iteration of the while loop
StepSection ==
    /\ pc = "loop"
    /\ LET sz == read_leb128(data, pos + 1)
           p1 == pos + 1 + sz.len
           send == p1 + sz.value
           nl == read_leb128(data, p1)
           nstart == p1 + nl.len
       IN
       /\ section_start' = pos
       /\ section_id' = data[pos + 1]
       /\ IF ~sz.ok
          THEN /\ pc' = "error" /\ err' = "IndexError"
               /\ UNCHANGED <<section_size, leb_len, section_end, name_len,
                              name_leb_len, name_start, out, pos, stripped, diag>>
          ELSE
          /\ section_size' = sz.value
          /\ leb_len' = sz.len
          /\ section_end' = send
          /\ IF data[pos + 1] # 0
             THEN /\ out' = out \o kept_bytes(data, pos, send)
                  /\ pos' = send
                  /\ pc' = after_loop_test(data, send)
                  /\ UNCHANGED <<name_len, name_leb_len, name_start, stripped,
                                 diag, err>>
             ELSE IF ~nl.ok
             THEN /\ pc' = "error" /\ err' = "IndexError"
                  /\ UNCHANGED <<name_len, name_leb_len, name_start, out, pos,
                                 stripped, diag>>
             ELSE
             /\ name_len' = nl.value
             /\ name_leb_len' = nl.len
             /\ name_start' = nstart
             /\ pos' = send
             /\ pc' = after_loop_test(data, send)
             /\ UNCHANGED err
             /\ IF is_target(data, nstart, nl.value)
                THEN /\ diag' = Append(diag, send - pos)
                     /\ stripped' = TRUE
                     /\ UNCHANGED out
                ELSE /\ out' = out \o kept_bytes(data, pos, send)
                     /\ UNCHANGED <<stripped, diag>>
    /\ UNCHANGED <<argc, data, warning, outfile_exists, outfile, run>>

\* lines 58-60: write the output file, warn when nothing was stripped
WriteOutput ==
    /\ pc = "write"
    /\ outfile' = out
    /\ outfile_exists' = TRUE
    /\ warning' = ~stripped
    /\ pc' = "done"
    /\ UNCHANGED <<argc, data, out, pos, stripped, locals, diag, err, run>>

\* The tool is invoked again, on the file the previous invocation wrote and
\* with a fresh output path.
Rerun ==
    /\ pc = "done"
    /\ run < MaxRuns
    /\ run' = run + 1
    /\ argc' = 3
    /\ data' = outfile
    /\ out' = <<>>
    /\ pos' = -1
    /\ stripped' = FALSE
    /\ section_start' = -1 /\ section_id' = -1 /\ section_size' = -1
    /\ leb_len' = -1 /\ section_end' = -1
    /\ name_len' = -1 /\ name_leb_len' = -1 /\ name_start' = -1
    /\ diag' = <<>>
    /\ warning' = FALSE
    /\ outfile_exists' = FALSE
    /\ outfile' = <<>>
    /\ err' = "none"
    /\ pc' = "start"

Next == Start \/ StepSection \/ WriteOutput \/ Rerun

Spec == Init /\ [][Next]_vars

TypeOK ==
    /\ pc \in {"start", "loop", "write", "done", "usage", "error"}
    /\ err \in {"none", "AssertionError", "IndexError"}
    /\ run \in 1..MaxRuns
    /\ stripped \in BOOLEAN /\ warning \in BOOLEAN /\ outfile_exists \in BOOLEAN
    /\ \A i \in 1..Len(data) : data[i] \in 0..255
    /\ \A i \in 1..Len(out) : out[i] \in 0..255

---------------------------------------------------------------------------
(* Vocabulary of the properties: the container format as the design        *)
(* describes it, written without the program's operators.                  *)

\* some byte at or after off has its high bit clear
HasTerminator(d, off) == \E k \in off..(Len(d) - 1) : d[k + 1] < 128

\* offset of the first byte at or after off whose high bit is clear
TermIndex(d, off) ==
    CHOOSE k \in off..(Len(d) - 1) :
        d[k + 1] < 128 /\ \A j \in off..(k - 1) : d[j + 1] >= 128

VarintLen(d, off) == TermIndex(d, off) - off + 1

\* sum over byte_index 0..n-1 of (byte & 0x7F) << (7 * byte_index)
RECURSIVE Low7Sum(_, _, _)
Low7Sum(d, off, n) ==
    IF n = 0 THEN 0
    ELSE Low7Sum(d, off, n - 1) + (d[off + n] % 128) * (2 ^ (7 * (n - 1)))

VarintValue(d, off) == Low7Sum(d, off, VarintLen(d, off))

\* every byte from off to the end of the buffer has its continuation bit set
UnterminatedAt(d, off) ==
    off < Len(d) /\ \A k \in off..(Len(d) - 1) : d[k + 1] >= 128

\* The section table: id byte, size varint, declared payload, from cur on.
RECURSIVE SectionsFrom(_, _)
SectionsFrom(d, cur) ==
    IF cur >= Len(d) \/ ~HasTerminator(d, cur + 1)
    THEN <<>>
    ELSE LET ps == cur + 1 + VarintLen(d, cur + 1)
             e == ps + VarintValue(d, cur + 1)
         IN  <<[start |-> cur, payload_start |-> ps, end |-> e, id |-> d[cur + 1]]>>
             \o SectionsFrom(d, e)

Sections(d) == SectionsFrom(d, HeaderLen)

\* where the table ends: the end of the last section, or the section whose
\* size field cannot be read
RECURSIVE WalkStop(_, _)
WalkStop(d, cur) ==
    IF cur >= Len(d) \/ ~HasTerminator(d, cur + 1)
    THEN cur
    ELSE WalkStop(d, cur + 1 + VarintLen(d, cur + 1) + VarintValue(d, cur + 1))

\* the part of the payload that is in the buffer
PayloadLimit(d, s) == Min(s.end, Len(d))

\* a custom section whose name_length varint and name bytes lie in its payload
NameInPayload(d, s) ==
    /\ s.id = 0
    /\ \E k \in s.payload_start..(PayloadLimit(d, s) - 1) : d[k + 1] < 128
    /\ s.payload_start + VarintLen(d, s.payload_start)
         + VarintValue(d, s.payload_start) <= PayloadLimit(d, s)

SectionName(d, s) ==
    LET ns == s.payload_start + VarintLen(d, s.payload_start)
    IN  SubSeq(d, ns + 1, ns + VarintValue(d, s.payload_start))

\* a custom section named exactly "target_features"
NamedTarget(d, s) == NameInPayload(d, s) /\ SectionName(d, s) = TargetName

TargetCount(d) ==
    LET ss == Sections(d)
    IN  Cardinality({i \in 1..Len(ss) : NamedTarget(d, ss[i])})

HasTarget(d) == TargetCount(d) > 0

\* header, then the spans of the sections that are not named the target
RECURSIVE RetainedBytes(_, _)
RetainedBytes(d, ss) ==
    IF ss = <<>> THEN <<>>
    ELSE (IF NamedTarget(d, Head(ss)) THEN <<>>
          ELSE Slice(d, Head(ss).start, Head(ss).end))
         \o RetainedBytes(d, Tail(ss))

ExpectedOutput(d) == Slice(d, 0, HeaderLen) \o RetainedBytes(d, Sections(d))

RECURSIVE SumSeq(_)
SumSeq(q) == IF q = <<>> THEN 0 ELSE Head(q) + SumSeq(Tail(q))

\* a size field, or a custom section's name_length field, whose continuation
\* bit is set on every byte up to the end of the buffer
RunawayVarint(d) ==
    /\ Len(d) > 0
    /\ d[Len(d)] >= 128      \* only a buffer ending in a continuation byte holds one
    /\ LET ss == Sections(d)
       IN  \/ UnterminatedAt(d, WalkStop(d, HeaderLen) + 1)
           \/ \E i \in 1..Len(ss) :
                 ss[i].id = 0 /\ UnterminatedAt(d, ss[i].payload_start)

\* a module as the data model has it: the magic, an 8-byte header, sections
\* that tile the buffer exactly, every custom section holding its name field
WellFormed(d) ==
    /\ Len(d) >= HeaderLen
    /\ Slice(d, 0, 4) = Magic
    /\ WalkStop(d, HeaderLen) = Len(d)
    /\ LET ss == Sections(d)
       IN  \A i \in 1..Len(ss) : ss[i].id = 0 => NameInPayload(d, ss[i])

---------------------------------------------------------------------------
(* Claims.                                                                 *)

\* C1: when an output is written it is the 8-byte header followed by the
\* full spans of exactly the sections that are not custom sections named the
\* target, in input order, byte for byte.
C1_Passthrough == pc = "done" => outfile = ExpectedOutput(data)

\* C2: a module holding no custom section named the target comes out
\* byte-identical, with nothing reported as removed and the warning printed.
C2_RoundTrip ==
    (pc = "done" /\ ~HasTarget(data))
        => (outfile = data /\ ~stripped /\ diag = <<>> /\ warning)

\* C3: a second run on the output of a successful first run writes the same
\* bytes again and removes nothing.
C3_Idempotent ==
    (run >= 2 /\ pc = "done") => (outfile = data /\ ~stripped /\ diag = <<>>)

\* C4: one pass removes every custom section named the target, so the output
\* holds none, and the number of removals reported equals the number of such
\* sections in the input.
C4_Multiplicity ==
    pc = "done" => (~HasTarget(outfile) /\ Len(diag) = TargetCount(data))

\* C5: a section whose declared payload ends past the buffer makes the pass
\* fail without an output file; a walk that ends normally ends with the cursor
\* exactly on the end of the buffer.
C5_Truncation ==
    /\ section_end > Len(data) => (pc = "error" /\ ~outfile_exists)
    /\ (pc \in {"write", "done"} /\ section_start >= 0) => pos = Len(data)

\* C6: when a section size or a custom section's name length is a varint whose
\* continuation bit is set on every byte up to the end of the buffer, the pass
\* never reaches the write: it ends in an uncaught error and no output file
\* exists.
C6_MalformedVarint ==
    (argc = 3 /\ RunawayVarint(data)) =>
        /\ ~outfile_exists
        /\ \/ pc \in {"start", "loop"}
           \/ /\ pc = "error"
              /\ err = IF Slice(data, 0, 4) = Magic THEN "IndexError"
                       ELSE "AssertionError"

\* C6: the pass died on a varint that runs to the end of the buffer
C6_Witness ==
    /\ pc = "error" /\ err = "IndexError" /\ run = 1
    /\ RunawayVarint(data)
    /\ data[Len(data)] >= 128

\* C7: the first four bytes are compared with the magic before any section is
\* read; when they differ (also when the input is shorter than four bytes) the
\* pass ends in an error, no section has been processed and no output file
\* exists.
C7_MagicFirst ==
    /\ pc = "start" => (section_start = -1 /\ pos = -1 /\ out = <<>>)
    /\ (argc = 3 /\ pc # "start" /\ Slice(data, 0, 4) # Magic) =>
          /\ pc = "error" /\ err = "AssertionError"
          /\ ~outfile_exists
          /\ section_start = -1 /\ pos = -1 /\ out = <<>> /\ diag = <<>>

\* C7: the pass died on an input shorter than the magic
C7_Witness ==
    /\ pc = "error" /\ err = "AssertionError"
    /\ Len(data) < 4

\* C8: the length of the output equals the length of the input minus the sum
\* of the full span lengths (id byte, size field, declared payload) of the
\* removed sections, which are the byte counts the tool reports.
C8_Completeness == pc = "done" => Len(outfile) = Len(data) - SumSeq(diag)

\* C9: wherever a terminating byte exists at or after the offset, read_leb128
\* stops at the first one, returns the sum of (byte & 0x7F) << (7 * index)
\* and the number of bytes read, at least 1; the section walk's size and
\* length locals hold exactly these; the buffer is never modified by a step.
C9_Decode ==
    /\ pc = "start" =>
          \A off \in 0..(Len(data) - 1) :
              HasTerminator(data, off) =>
                  LET r == read_leb128(data, off)
                  IN  /\ r.ok
                      /\ r.len = VarintLen(data, off)
                      /\ r.value = VarintValue(data, off)
                      /\ r.len >= 1
    /\ (section_start >= 0 /\ HasTerminator(data, section_start + 1)) =>
          /\ leb_len = VarintLen(data, section_start + 1)
          /\ section_size = VarintValue(data, section_start + 1)

\* C9, as checked: the decode agrees with the closed form at every offset of
\* every input and on every size field the walk decodes, and
\* no step of the section walk changes the buffer.
C9_Varint == []C9_Decode /\ [][pc = "loop" => data' = data]_vars

\* C9: the walk has decoded a three-byte size field
C9_Witness ==
    /\ pc \in {"loop", "write"}
    /\ section_id = 5 /\ leb_len = 3 /\ section_size = 2

\* C10: a custom section is dropped only when the name_length varint and the
\* name bytes compared with the target lie inside that section's own span.
C10_SectionLocal ==
    [][Len(diag') > Len(diag) => name_start' + name_len' <= section_end']_vars

---------------------------------------------------------------------------
(* Supporting lemma: on a well-formed module (sections tile the buffer,    *)
(* every custom section holds its name field) the statements of C1, C2,    *)
(* C3, C4, C5 and C8 all hold; they fail only on inputs where a name field  *)
(* overruns its section or the last section is truncated.                  *)

OnWellFormed ==
    WellFormed(data) =>
        /\ C1_Passthrough /\ C2_RoundTrip /\ C3_Idempotent
        /\ C4_Multiplicity /\ C5_Truncation /\ C8_Completeness

\* without an overrunning name field, C1 to C4 hold on every input
OnNamesInPayload ==
    (\A i \in 1..Len(Sections(data)) :
        Sections(data)[i].id = 0 => NameInPayload(data, Sections(data)[i]))
    => (C1_Passthrough /\ C2_RoundTrip /\ C3_Idempotent /\ C4_Multiplicity)

\* without a truncated section, C5 and C8 hold on every input
OnExactTiling ==
    WalkStop(data, HeaderLen) = Len(data) => (C5_Truncation /\ C8_Completeness)

====
